---- MODULE Spec2Model ----
(***************************************************************************)
(* Model of the feishu calendar bot's idempotent ingestion pipeline:       *)
(*   - DedupStore            (src/utils/dedup_store.py)                    *)
(*   - handle_message_event  (src/main.py, long-connection entry point)    *)
(*   - feishu_event          (src/app/main.py, webhook entry point)        *)
(*   - FeishuClient token cache (src/app/feishu_client.py)                 *)
(*   - FeishuClient.create_calendar_event (src/services/feishu_client.py)  *)
(*   - TextHandler.handle (src/apps/calendar-bot/handlers/text_handler.py) *)
(* Time is counted in whole seconds, as int(time.time()) does.             *)
(***************************************************************************)
EXTENDS Integers, Sequences, FiniteSets, TLC

\* ------------------------------------------------------------------ bounds
\* number of delivery workers (threads running handle_message_event)
MaxProcs == 2
\* number of admission calls recorded in the history
MaxCalls == 3
\* number of clock advances
MaxTicks == 2
\* wall-clock second at which the process starts (time.time() is far from 0)
StartTime == 7200
\* direct calls of get_app_access_token / get_tenant_access_token
MaxOps == 3
\* requests the webhook server receives
MaxRequests == 2
\* credentials the issuer hands out
MaxIssued == 2
\* calls the threads sharing one FeishuClient make
MaxRaceCalls == 2

\* ------------------------------------------------------- program constants
MESSAGE_DEDUP_WINDOW == 60 * 60
MAX_PROCESSED_MESSAGES == 2000
\* src/app/feishu_client.py line 28: seconds taken off the issuer's lifetime
ExpiryMargin == 60
\* lifetimes ("expire") the credential endpoint answers with, in seconds
LongLife == 7200
ExpireValues == {30, ExpiryMargin + 1, LongLife}
\* the webhook server's clock advances by a second or by most of a lifetime
AppTickSteps == {1, LongLife - ExpiryMargin - 1}

MsgIds == {"m1", "m2"}
\* a worker that handles no message
NoMsg == "none"
Procs == 1..MaxProcs
\* the clock advances by one second or by one retention window
TickSteps == {1, MESSAGE_DEDUP_WINDOW}
\* window_seconds / cleanup_interval_seconds a DedupStore is constructed with
StoreWindows == {1, MESSAGE_DEDUP_WINDOW}
StoreIntervals == {1, MESSAGE_DEDUP_WINDOW}
\* where a sqlite call of is_duplicate / cleanup can raise; a failed commit
\* either leaves the transaction open (busy) or rolls it back (lost)
Faults == {"none", "delete", "sweep_commit_busy", "sweep_commit_lost",
           "insert", "commit_busy", "commit_lost"}

VARIABLES
    clock,                    \* time.time(), in seconds
    ticks,                    \* clock advances so far
    \* DedupStore
    window_seconds,
    cleanup_interval_seconds,
    last_cleanup,             \* self._last_cleanup
    rows,                     \* processed_messages table as the connection sees it
    disk,                     \* committed content of the table
    \* src/main.py
    processed_messages,       \* dict message_id -> timestamp, as a set of items
    others,                   \* items of processed_messages for ids outside MsgIds
    pc,                       \* position of each worker inside handle_message_event
    msg,                      \* message_id the worker is handling
    current_time,             \* the worker's local current_time
    \* observation
    entry,                    \* the entry point this deployment runs: "db" or "mem"
    admits,                   \* per id, the times of its first-admission results, in order
    rejects,                  \* per id, the times at which it was rejected as duplicate
    raised,                   \* per id, the times at which admission raised
    routed,                   \* per id, times it was passed on to a handler
    routed_on_error,          \* events passed on by a call in which a sqlite call failed
    restarts,                 \* process restarts so far
    \* src/app (webhook entry point and its FeishuClient)
    token_cache,              \* self._token_cache: {} (None) or one record
    deadline,                 \* per issued credential, the second the issuer expires it
                              \* (0 once the credential is neither cached nor in flight)
    frame,                    \* per worker, the locals of its get_*_access_token call
    tret,                     \* the get_*_access_token call that ended last
    create_calls,             \* per id, create-event requests sent to the calendar
    replies,                  \* per id, messages sent back to the user
    send_configured,          \* settings.feishu_send_message_endpoint is set
    nops,                     \* requests and direct client calls started
    after_fail,               \* "failed" once a credential call raised while a
                              \* credential was cached, "served" once a later
                              \* request was answered to the user
    \* src/services/feishu_client.py and the calendar-bot text handler
    events,                   \* per (calendar, title, start), the events the calendar holds
    svc,                      \* per worker, the locals of the text handler
    runs,                     \* per id, how its run went: the outcome, whether a
                              \* matching event existed when the create request
                              \* was sent, whether one was sent
    \* src/main.py routing and the handlers of src/handlers
    handled,                  \* per id, the handling of the message: its type,
                              \* the schedule extracted, the collaborator calls
                              \* and replies made in order, what the user was
                              \* told, the event passed to the calendar
    \* src/app/storage.py and the requests of src/app/main.py that use it
    token_file,               \* data/token_store.json: per user, the stored token
    req,                      \* per worker, the locals of its request
    oauth_log                 \* what the requests did: per user the token of the
                              \* last set_user_token that returned, the calendar
                              \* calls, the authorization prompts, the side effects

vars == <<clock, ticks, window_seconds, cleanup_interval_seconds, last_cleanup,
          rows, disk, processed_messages, others, pc, msg, current_time,
          entry, admits, rejects, raised, routed, routed_on_error, restarts,
          token_cache, deadline, frame, tret, create_calls, replies,
          send_configured, nops, after_fail, events, svc, runs, handled,
          token_file, req, oauth_log>>

storeVars == <<window_seconds, cleanup_interval_seconds, last_cleanup, rows, disk>>
botVars == <<processed_messages, others, pc, msg, current_time>>
obsVars == <<admits, rejects, raised, routed, routed_on_error>>
appVars == <<token_cache, deadline, frame, tret, create_calls, replies,
             send_configured, nops, after_fail>>
dedupVars == <<storeVars, processed_messages, others, current_time, obsVars,
               restarts>>
svcVars == <<events, svc, runs, handled>>
oauthVars == <<token_file, req, oauth_log>>
\* the deployment, and the token store it does not use
deployVars == <<entry, oauthVars>>

\* admission calls answered so far
RECURSIVE SumOver(_, _)
SumOver(f, S) ==
    IF S = {} THEN 0
    ELSE LET x == CHOOSE y \in S : TRUE IN f[x] + SumOver(f, S \ {x})
NCalls ==
    SumOver([m \in MsgIds |-> Len(admits[m]) + Cardinality(rejects[m])
                                + Cardinality(raised[m])], MsgIds)

\* ------------------------------------------------------------- DedupStore

HasRow(table, m) == \E r \in table : r.message_id = m

\* DedupStore.cleanup with the comparison reversed into <=
cleanup_inclusive(db, now, fault) ==
    LET cutoff == now - window_seconds
        kept == {r \in db.rows : ~(r.created_at <= cutoff)}
    IN  [st |-> [rows |-> kept, disk |-> kept, last |-> now], raised |-> FALSE]

\* DedupStore.cleanup(now): DELETE ... WHERE created_at < cutoff; commit;
\* _last_cleanup = now.  db = [rows, disk, last].
cleanup(db, now, fault) ==
    LET cutoff == now - window_seconds
        kept == {r \in db.rows : ~(r.created_at < cutoff)}
    IN  CASE fault = "delete" ->
               [st |-> db, raised |-> TRUE]
          [] fault = "sweep_commit_busy" ->
               [st |-> [db EXCEPT !.rows = kept], raised |-> TRUE]
          [] fault = "sweep_commit_lost" ->
               [st |-> [db EXCEPT !.rows = db.disk], raised |-> TRUE]
          [] OTHER ->
               [st |-> [rows |-> kept, disk |-> kept, last |-> now],
                raised |-> FALSE]

\* is_duplicate that swallows a storage error and reports the id as new
is_duplicate_swallow(db, m, now, fault) ==
    LET due == now - db.last >= cleanup_interval_seconds
        c == IF due THEN cleanup(db, now, "none") ELSE [st |-> db, raised |-> FALSE]
        exists == HasRow(c.st.rows, m)
        ins == IF exists THEN c.st.rows
               ELSE c.st.rows \cup {[message_id |-> m, created_at |-> now]}
    IN  IF fault = "none"
        THEN [st |-> [c.st EXCEPT !.rows = ins, !.disk = ins],
              result |-> IF exists THEN "dup" ELSE "new", failed |-> FALSE]
        ELSE [st |-> c.st, result |-> "new", failed |-> TRUE]

\* is_duplicate that sweeps in every call
is_duplicate_sweep_always(db, m, now, fault) ==
    LET c == cleanup(db, now, "none")
        exists == HasRow(c.st.rows, m)
        ins == IF exists THEN c.st.rows
               ELSE c.st.rows \cup {[message_id |-> m, created_at |-> now]}
    IN  [st |-> [c.st EXCEPT !.rows = ins, !.disk = ins],
         result |-> IF exists THEN "dup" ELSE "new", failed |-> FALSE]

\* is_duplicate that writes the time of the call over the row it finds
is_duplicate_touch(db, m, now, fault) ==
    LET due == now - db.last >= cleanup_interval_seconds
        c == IF due THEN cleanup(db, now, "none") ELSE [st |-> db, raised |-> FALSE]
        exists == HasRow(c.st.rows, m)
        ins == {r \in c.st.rows : r.message_id # m}
               \cup {[message_id |-> m, created_at |-> now]}
    IN  [st |-> [c.st EXCEPT !.rows = ins, !.disk = ins],
         result |-> IF exists THEN "dup" ELSE "new", failed |-> FALSE]

\* DedupStore.is_duplicate(message_id): sweep when due, INSERT OR IGNORE,
\* commit, return rowcount == 0.  result: "new" (False), "dup" (True) or
\* "raise" (a sqlite3 error leaves the method); failed: a sqlite call raised.
is_duplicate(db, m, now, fault) ==
    LET due == now - db.last >= cleanup_interval_seconds
        c == IF due THEN cleanup(db, now, fault) ELSE [st |-> db, raised |-> FALSE]
        exists == HasRow(c.st.rows, m)
        ins == IF exists THEN c.st.rows
               ELSE c.st.rows \cup {[message_id |-> m, created_at |-> now]}
    IN  IF c.raised THEN [st |-> c.st, result |-> "raise", failed |-> TRUE]
        ELSE CASE fault = "insert" ->
                    [st |-> c.st, result |-> "raise", failed |-> TRUE]
               [] fault = "commit_busy" ->
                    [st |-> [c.st EXCEPT !.rows = ins], result |-> "raise",
                     failed |-> TRUE]
               [] fault = "commit_lost" ->
                    [st |-> [c.st EXCEPT !.rows = c.st.disk], result |-> "raise",
                     failed |-> TRUE]
               [] OTHER ->
                    [st |-> [c.st EXCEPT !.rows = ins, !.disk = ins],
                     result |-> IF exists THEN "dup" ELSE "new",
                     failed |-> FALSE]

\* The inbound handler wired to a DedupStore: admit, and on rejection or on a
\* storage error leave without handling the event.
StoreDeliver(m, fault) ==
    /\ entry = "db"
    /\ NCalls < MaxCalls
    /\ LET r == is_duplicate([rows |-> rows, disk |-> disk, last |-> last_cleanup],
                             m, clock, fault)
       IN  /\ rows' = r.st.rows
           /\ disk' = r.st.disk
           /\ last_cleanup' = r.st.last
           /\ admits' = IF r.result = "new"
                        THEN [admits EXCEPT ![m] = Append(@, clock)] ELSE admits
           /\ rejects' = IF r.result = "dup"
                         THEN [rejects EXCEPT ![m] = @ \cup {clock}] ELSE rejects
           /\ raised' = IF r.failed
                        THEN [raised EXCEPT ![m] = @ \cup {clock}] ELSE raised
           /\ routed' = IF r.result = "new"
                        THEN [routed EXCEPT ![m] = @ + 1] ELSE routed
           /\ routed_on_error' = IF r.result = "new" /\ r.failed
                                 THEN routed_on_error + 1 ELSE routed_on_error
    /\ UNCHANGED <<clock, ticks, window_seconds, cleanup_interval_seconds,
                   botVars, deployVars, restarts, appVars, svcVars>>

\* ------------------------------------------------------------ src/main.py

DictHas(d, m) == \E e \in d : e.message_id = m
DictLen == Cardinality(processed_messages) + others

\* no other worker is inside handle_message_event
Alone(p) == \A q \in Procs \ {p} : pc[q] = "idle"

\* lines 82-90: the transport hands a message to a worker
Receive(p, m) ==
    /\ entry = "mem"
    /\ pc[p] = "idle"
    /\ NCalls + Cardinality({q \in Procs : pc[q] \in {"check", "mark"}}) < MaxCalls
    /\ pc' = [pc EXCEPT ![p] = "check"]
    /\ msg' = [msg EXCEPT ![p] = m]
    /\ UNCHANGED <<clock, ticks, storeVars, processed_messages, others,
                   current_time, deployVars, obsVars, restarts,
                   appVars, svcVars>>

\* lines 93-96: current_time = time.time(); if message_id in processed_messages: return
Check(p) ==
    /\ pc[p] = "check"
    /\ IF DictHas(processed_messages, msg[p])
       THEN /\ pc' = [pc EXCEPT ![p] = "idle"]
            /\ rejects' = [rejects EXCEPT ![msg[p]] = @ \cup {clock}]
            /\ UNCHANGED current_time
       ELSE /\ pc' = [pc EXCEPT ![p] = "mark"]
            /\ current_time' = [current_time EXCEPT ![p] = clock]
            /\ UNCHANGED rejects
    /\ UNCHANGED <<clock, ticks, storeVars, processed_messages, others, msg,
                   deployVars, admits, raised, routed, routed_on_error, restarts,
                   appVars, svcVars>>

\* line 99: processed_messages[message_id] = current_time
Mark(p) ==
    /\ pc[p] = "mark"
    /\ processed_messages' =
          {e \in processed_messages : e.message_id # msg[p]}
          \cup {[message_id |-> msg[p], timestamp |-> current_time[p]]}
    /\ admits' = [admits EXCEPT ![msg[p]] = Append(@, current_time[p])]
    /\ current_time' = [current_time EXCEPT ![p] = 0]
    /\ pc' = [pc EXCEPT ![p] = "purge"]
    /\ UNCHANGED <<clock, ticks, storeVars, others, msg, deployVars, rejects, raised,
                   routed, routed_on_error, restarts,
                   appVars, svcVars>>

\* cleanup_old_messages with >= in place of >
cleanup_old_messages_inclusive(d, now) ==
    {e \in d : ~(now - e.timestamp >= MESSAGE_DEDUP_WINDOW)}

\* cleanup_old_messages (lines 62-71): the items that stay
cleanup_old_messages(d, now) ==
    {e \in d : ~(now - e.timestamp > MESSAGE_DEDUP_WINDOW)}

\* lines 102-103: if len(processed_messages) > MAX_PROCESSED_MESSAGES: cleanup
Purge(p) ==
    /\ pc[p] = "purge"
    /\ IF DictLen > MAX_PROCESSED_MESSAGES
       THEN /\ processed_messages' = cleanup_old_messages(processed_messages, clock)
            /\ others' = IF clock - StartTime > MESSAGE_DEDUP_WINDOW THEN 0 ELSE others
       ELSE UNCHANGED <<processed_messages, others>>
    /\ pc' = [pc EXCEPT ![p] = "route"]
    /\ UNCHANGED <<clock, ticks, storeVars, msg, current_time, deployVars, obsVars,
                   restarts, appVars, svcVars>>

\* lines 105-141: the event is passed to the handler of its message type
Route(p) ==
    /\ pc[p] = "route"
    /\ routed' = [routed EXCEPT ![msg[p]] = @ + 1]
    /\ pc' = [pc EXCEPT ![p] = "idle"]
    /\ UNCHANGED <<clock, ticks, storeVars, processed_messages, others, msg,
                   current_time, deployVars, admits, rejects, raised, routed_on_error,
                   restarts, appVars, svcVars>>

\* the process is stopped and started again: module globals are rebuilt
\* (main.py lines 28-31), a DedupStore reopens its database file
Restart ==
    /\ restarts = 0
    /\ restarts' = restarts + 1
    /\ processed_messages' = {}
    /\ others' = 0
    /\ pc' = [p \in Procs |-> "idle"]
    /\ current_time' = [p \in Procs |-> 0]
    /\ rows' = disk
    /\ last_cleanup' = 0
    /\ UNCHANGED <<clock, ticks, window_seconds, cleanup_interval_seconds, disk,
                   msg, deployVars, obsVars, appVars, svcVars>>

Tick(d) ==
    /\ ticks < MaxTicks
    /\ clock' = clock + d
    /\ ticks' = ticks + 1
    /\ UNCHANGED <<storeVars, botVars, deployVars, obsVars, restarts,
                   appVars, svcVars>>

\* ------------------------------------- src/app/feishu_client.py (token cache)

\* what no app action changes
fixedVars == <<clock, ticks, dedupVars, deployVars, send_configured, svcVars>>

\* the webhook handler is an async function that never yields after reading
\* the body: requests run one after the other on the event-loop thread
MainThread == 1

NoTok == [k |-> 0, t |-> "none"]
NoResp == [k |-> 0, has_tenant |-> FALSE, expire |-> 0]
NoFrame == [kind |-> "none", ret_to |-> "idle", entered |-> FALSE,
            fresh |-> FALSE, expect |-> NoTok, at_expiry |-> FALSE,
            posts |-> 0, resp |-> NoResp]
NoCall == [kind |-> "none", fresh |-> FALSE, expect |-> NoTok,
           at_expiry |-> FALSE, posts |-> 0,
           result |-> "none", token |-> NoTok]

\* what the credential endpoint can answer with code 0: the lifetime it gives
\* the credential, whether the body carries "expire", and whether it carries
\* "tenant_access_token"
Responses ==
    {[life |-> l, present |-> TRUE, has_tenant |-> TRUE] : l \in ExpireValues}
    \cup {[life |-> LongLife, present |-> FALSE, has_tenant |-> TRUE],
          [life |-> LongLife, present |-> TRUE, has_tenant |-> FALSE]}

\* how the credential call can fail: httpx.post raises (line 20),
\* raise_for_status raises (line 21), the body has code != 0 (lines 23-24)
PostFailures == {"transport", "http_status", "code_nonzero"}

\* the cached record, when there is one
Cached(cache) == CHOOSE c \in cache : TRUE

\* the cache test with >= in place of >
CacheValid_inclusive(cache, now) ==
    /\ cache # {}
    /\ Cached(cache).expire_at >= now

\* lines 16 and 37: self._token_cache and
\* self._token_cache["expire_at"] > int(time.time())
CacheValid(cache, now) ==
    /\ cache # {}
    /\ Cached(cache).expire_at > now

\* the call is made strictly before the cached expire_at
BeforeExpiry(cache, now) == \E c \in cache : now < c.expire_at

\* the token of the given kind in a cache record
TokenOf(cache, kind) ==
    IF kind = "app" THEN Cached(cache).app_access_token
    ELSE Cached(cache).tenant_access_token

\* the first statement of a call: note whether it is made before the cached
\* expire_at, the cached token it then has to return, and whether it is made
\* at the very second of expire_at
Entered(f, now) ==
    IF f.entered THEN f
    ELSE [f EXCEPT !.entered = TRUE,
                   !.fresh = BeforeExpiry(token_cache, now),
                   !.expect = IF BeforeExpiry(token_cache, now)
                              THEN TokenOf(token_cache, f.kind) ELSE NoTok,
                   !.at_expiry = \E c \in token_cache : c.expire_at = now]

\* a get_*_access_token call returns tok to its caller
Return(p, f, tok) ==
    /\ tret' = [kind |-> f.kind, fresh |-> f.fresh, expect |-> f.expect,
                at_expiry |-> f.at_expiry,
                posts |-> f.posts, result |-> "ok", token |-> tok]
    /\ pc' = [pc EXCEPT ![p] = f.ret_to]
    /\ frame' = [frame EXCEPT ![p] = NoFrame]

\* an exception that leaves the credential call and drops the cache on its way
Raise_dropping_cache(p, f) ==
    /\ tret' = [kind |-> f.kind, fresh |-> f.fresh, expect |-> f.expect,
                at_expiry |-> f.at_expiry,
                posts |-> f.posts, result |-> "raise", token |-> NoTok]
    /\ after_fail' = IF token_cache # {} THEN "failed" ELSE after_fail
    /\ token_cache' = {}
    /\ pc' = [pc EXCEPT ![p] = "idle"]
    /\ frame' = [frame EXCEPT ![p] = NoFrame]
    /\ msg' = [msg EXCEPT ![p] = NoMsg]

\* an exception leaves get_app_access_token (lines 20-24) before line 29 is
\* reached; no caller catches it (get_tenant_access_token line 40,
\* download_message_resource line 45, send_message line 59, feishu_event), so
\* the request ends there
Raise(p, f) ==
    /\ tret' = [kind |-> f.kind, fresh |-> f.fresh, expect |-> f.expect,
                at_expiry |-> f.at_expiry,
                posts |-> f.posts, result |-> "raise", token |-> NoTok]
    /\ after_fail' = IF token_cache # {} THEN "failed" ELSE after_fail
    /\ UNCHANGED token_cache
    /\ pc' = [pc EXCEPT ![p] = "idle"]
    /\ frame' = [frame EXCEPT ![p] = NoFrame]
    /\ msg' = [msg EXCEPT ![p] = NoMsg]

\* a client calls get_app_access_token or get_tenant_access_token
StartCall(p, kind) ==
    /\ entry = "app"
    /\ pc[p] = "idle"
    /\ nops < MaxOps
    /\ nops' = nops + 1
    /\ frame' = [frame EXCEPT ![p] = [NoFrame EXCEPT !.kind = kind]]
    /\ pc' = [pc EXCEPT ![p] = IF kind = "tenant" THEN "ten_check" ELSE "app_check"]
    /\ UNCHANGED <<fixedVars, msg, token_cache, deadline, tret,
                   create_calls, replies, after_fail>>

\* get_tenant_access_token lines 37-39
GetTenantCheck(p) ==
    /\ pc[p] = "ten_check"
    /\ LET f == Entered(frame[p], clock)
       IN  IF CacheValid(token_cache, clock)
           THEN Return(p, f, Cached(token_cache).tenant_access_token)
           ELSE /\ pc' = [pc EXCEPT ![p] = "app_check"]
                /\ frame' = [frame EXCEPT ![p] = f]
                /\ UNCHANGED tret
    /\ UNCHANGED <<fixedVars, msg, token_cache, deadline, create_calls,
                   replies, nops, after_fail>>

\* get_app_access_token lines 16-17
GetAppCheck(p) ==
    /\ pc[p] = "app_check"
    /\ LET f == Entered(frame[p], clock)
       IN  IF CacheValid(token_cache, clock)
           THEN IF f.kind = "app"
                THEN Return(p, f, Cached(token_cache).app_access_token)
                ELSE /\ pc' = [pc EXCEPT ![p] = "ten_read"]
                     /\ frame' = [frame EXCEPT ![p] = f]
                     /\ UNCHANGED tret
           ELSE /\ pc' = [pc EXCEPT ![p] = "app_post"]
                /\ frame' = [frame EXCEPT ![p] = f]
                /\ UNCHANGED tret
    /\ UNCHANGED <<fixedVars, msg, token_cache, deadline, create_calls,
                   replies, nops, after_fail>>

\* get_app_access_token lines 19-24: the request fails
GetAppPostFails(p, how) ==
    /\ pc[p] = "app_post"
    /\ how \in PostFailures
    /\ Raise(p, [frame[p] EXCEPT !.posts = @ + 1])
    /\ UNCHANGED <<fixedVars, deadline, create_calls, replies, nops>>

\* get_app_access_token lines 19-24: the endpoint issues a credential
GetAppPost(p, r) ==
    /\ pc[p] = "app_post"
    /\ Len(deadline) < MaxIssued
    /\ deadline' = Append(deadline, clock + r.life)
    /\ frame' = [frame EXCEPT ![p] =
                    [@ EXCEPT !.posts = @ + 1,
                              !.resp = [k |-> Len(deadline) + 1,
                                        has_tenant |-> r.has_tenant,
                                        expire |-> IF r.present THEN r.life ELSE 0]]]
    /\ pc' = [pc EXCEPT ![p] = "app_store"]
    /\ UNCHANGED <<fixedVars, msg, token_cache, tret, create_calls, replies,
                   nops, after_fail>>

\* a store that assigns the cached record key by key instead of replacing it:
\* the tenant token of the record it finds stays in place
GetAppStore_keywise(p) ==
    /\ pc[p] = "app_store"
    /\ LET f == frame[p]
           app_token == [k |-> f.resp.k, t |-> "app"]
           tenant_token == IF f.resp.has_tenant
                           THEN [k |-> f.resp.k, t |-> "tenant"] ELSE app_token
           expire == clock + f.resp.expire - ExpiryMargin
       IN  /\ token_cache' = {[app_access_token |-> app_token,
                               tenant_access_token |->
                                   IF token_cache = {} THEN tenant_token
                                   ELSE Cached(token_cache).tenant_access_token,
                               expire_at |-> expire]}
           /\ IF f.kind = "app"
              THEN Return(p, f, app_token)
              ELSE /\ pc' = [pc EXCEPT ![p] = "ten_read"]
                   /\ UNCHANGED <<frame, tret>>
    /\ deadline' = [i \in DOMAIN deadline |->
                       IF \E q \in Procs : frame[q].resp.k = i
                       THEN deadline[i] ELSE 0]
    /\ UNCHANGED <<fixedVars, msg, create_calls, replies,
                   nops, after_fail>>

\* get_app_access_token lines 26-34
GetAppStore(p) ==
    /\ pc[p] = "app_store"
    /\ LET f == frame[p]
           app_token == [k |-> f.resp.k, t |-> "app"]
           tenant_token == IF f.resp.has_tenant
                           THEN [k |-> f.resp.k, t |-> "tenant"] ELSE app_token
           expire == clock + f.resp.expire - ExpiryMargin
       IN  /\ token_cache' = {[app_access_token |-> app_token,
                               tenant_access_token |-> tenant_token,
                               expire_at |-> expire]}
           /\ IF f.kind = "app"
              THEN Return(p, f, app_token)
              ELSE /\ pc' = [pc EXCEPT ![p] = "ten_read"]
                   /\ UNCHANGED <<frame, tret>>
    /\ deadline' = [i \in DOMAIN deadline |->
                       IF \E q \in Procs : frame[q].resp.k = i
                       THEN deadline[i] ELSE 0]
    /\ UNCHANGED <<fixedVars, msg, create_calls, replies,
                   nops, after_fail>>

\* get_tenant_access_token lines 41-42
GetTenantRead(p) ==
    /\ pc[p] = "ten_read"
    /\ token_cache # {}
    /\ Return(p, frame[p], Cached(token_cache).tenant_access_token)
    /\ UNCHANGED <<fixedVars, msg, token_cache, deadline, create_calls,
                   replies, nops, after_fail>>

\* positions at which a worker waits for a remote answer: the credential
\* endpoint (line 20), the resource download, the calendar API, the send
IoWaits == {"app_store", "download", "calendar", "send_post"}

\* time.time() as the webhook server reads it: seconds pass while a request
\* waits for a remote answer, longer pauses fall between requests
AppTick(d) ==
    /\ entry = "app"
    /\ ticks < MaxTicks
    /\ \A p \in Procs : pc[p] \in IoWaits \/ pc[p] = "idle"
    /\ d = 1 \/ \A p \in Procs : pc[p] = "idle"
    /\ clock' = clock + d
    /\ ticks' = ticks + 1
    /\ UNCHANGED <<dedupVars, pc, msg, deployVars, appVars, svcVars>>

\* --------------------------------------- src/app/main.py (webhook endpoint)

MessageTypes == {"text", "image", "file"}

\* the request ends with a normal return
WhDone(p) ==
    /\ pc' = [pc EXCEPT ![p] = "idle"]
    /\ frame' = [frame EXCEPT ![p] = NoFrame]
    /\ msg' = [msg EXCEPT ![p] = NoMsg]

\* an exception leaves feishu_event (the function has no try/except): the
\* request is answered with an error, the server goes on
WhAbort(p) ==
    /\ pc' = [pc EXCEPT ![p] = "idle"]
    /\ frame' = [frame EXCEPT ![p] = NoFrame]
    /\ msg' = [msg EXCEPT ![p] = NoMsg]

\* a get_tenant_access_token call that comes back to position ret
TenantCall(p, ret) ==
    /\ frame' = [frame EXCEPT ![p] = [NoFrame EXCEPT !.kind = "tenant", !.ret_to = ret]]
    /\ pc' = [pc EXCEPT ![p] = "ten_check"]

\* feishu_event lines 56-102: a message event with a sender arrives
feishu_event(p, m, type) ==
    /\ entry = "app"
    /\ pc[p] = "idle"
    /\ nops < MaxRequests
    /\ nops' = nops + 1
    /\ CASE type = "text" ->
              /\ pc' = [pc EXCEPT ![p] = "extract"]
              /\ msg' = [msg EXCEPT ![p] = m]
              /\ UNCHANGED frame
         [] type = "image" ->
              \* download_message_resource line 45
              /\ TenantCall(p, "download")
              /\ msg' = [msg EXCEPT ![p] = m]
         [] OTHER ->
              \* lines 101-102
              UNCHANGED <<pc, frame, msg>>
    /\ UNCHANGED <<fixedVars, token_cache, deadline, tret, create_calls,
                   replies, after_fail>>

\* download_message_resource lines 46-52, then feishu_event lines 94-100:
\* the download and the OCR of the image
WhDownload(p, outcome) ==
    /\ pc[p] = "download"
    /\ outcome \in {"http_error", "ocr_error", "text"}
    /\ CASE outcome = "http_error" -> WhAbort(p)
         [] outcome = "ocr_error" ->
              /\ pc' = [pc EXCEPT ![p] = "send"]
              /\ frame' = [frame EXCEPT ![p] = NoFrame]
              /\ UNCHANGED msg
         [] OTHER ->
              /\ pc' = [pc EXCEPT ![p] = "extract"]
              /\ frame' = [frame EXCEPT ![p] = NoFrame]
              /\ UNCHANGED msg
    /\ UNCHANGED <<fixedVars, token_cache, deadline, tret, create_calls,
                   replies, nops, after_fail>>

\* feishu_event lines 104-119: extract_event finds an event or not, the user
\* has authorised the calendar or not
WhExtract(p, found, authorised) ==
    /\ pc[p] = "extract"
    /\ pc' = [pc EXCEPT ![p] = IF found /\ authorised THEN "calendar" ELSE "send"]
    /\ UNCHANGED <<fixedVars, msg, appVars, svcVars>>

\* feishu_event lines 121-137: get_primary_calendar_id and create_event
WhCalendar(p, outcome) ==
    /\ pc[p] = "calendar"
    /\ outcome \in {"primary_error", "create_error", "created"}
    /\ create_calls' = IF outcome = "primary_error" THEN create_calls
                       ELSE [create_calls EXCEPT ![msg[p]] = @ + 1]
    /\ IF outcome = "created"
       THEN /\ pc' = [pc EXCEPT ![p] = "send"]
            /\ UNCHANGED <<frame, msg>>
       ELSE WhAbort(p)
    /\ UNCHANGED <<fixedVars, token_cache, deadline, tret, replies, nops,
                   after_fail>>

\* send_message lines 55-58
WhSend(p) ==
    /\ pc[p] = "send"
    /\ IF send_configured
       THEN /\ TenantCall(p, "send_post")
            /\ UNCHANGED msg
       ELSE WhDone(p)
    /\ UNCHANGED <<fixedVars, token_cache, deadline, tret, create_calls,
                   replies, nops, after_fail>>

\* send_message lines 59-66
WhSendPost(p, ok) ==
    /\ pc[p] = "send_post"
    /\ IF ok
       THEN /\ replies' = [replies EXCEPT ![msg[p]] = @ + 1]
            /\ after_fail' = IF after_fail = "failed" THEN "served" ELSE after_fail
            /\ WhDone(p)
       ELSE /\ WhAbort(p)
            /\ UNCHANGED <<replies, after_fail>>
    /\ UNCHANGED <<fixedVars, token_cache, deadline, tret, create_calls,
                   nops>>

\* ------- src/services/feishu_client.py, src/apps/calendar-bot text handler

\* minutes in a day, the unit of the "%Y-%m-%d %H:%M" values
MinutesPerDay == 24 * 60
\* timedelta(hours=1), text_handler.py line 66
DefaultDuration == 60
\* an empty end_time string
NoTime == -1

\* what extract_schedule returns: no schedule and a reason (also its answer
\* when the LLM call fails, doubao_llm.py lines 116-121), or a date, a start
\* time and an end time that may be missing
Schedules ==
    {[has_schedule |-> FALSE, date |-> 0, start_time |-> 0, end_time |-> NoTime]}
    \cup {[has_schedule |-> TRUE, date |-> 1, start_time |-> s, end_time |-> e] :
             s \in {9 * 60, 23 * 60 + 30}, e \in {NoTime, 10 * 60}}
NoSchedule == [has_schedule |-> FALSE, date |-> 0, start_time |-> 0, end_time |-> 0]
NoEvent == [start |-> 0, end |-> 0]
NoHandling == [type |-> "none", schedule |-> NoSchedule, calls |-> <<>>,
               reply |-> "none", told |-> "none", resolved |-> NoEvent,
               event |-> NoEvent, done |-> FALSE, again |-> "none"]

\* a resolution whose default duration is half an hour
EventTimes_half_hour(d) ==
    LET start_dt == d.date * MinutesPerDay + d.start_time
        end_dt == IF d.end_time # NoTime
                  THEN d.date * MinutesPerDay + d.end_time
                  ELSE start_dt + 30
    IN  [start |-> start_dt, end |-> end_dt]

\* text_handler.py lines 62-66: datetime.strptime of date and time, the end
\* an hour after the start when end_time is empty
EventTimes(d) ==
    LET start_dt == d.date * MinutesPerDay + d.start_time
        end_dt == IF d.end_time # NoTime
                  THEN d.date * MinutesPerDay + d.end_time
                  ELSE start_dt + DefaultDuration
    IN  [start |-> start_dt, end |-> end_dt]

\* schedules the LLM extracts from a text: a title and a start
Drafts == {[title |-> t, start |-> EventTimes(s).start] :
              t \in {"standup", "lunch"}, s \in {x \in Schedules : x.has_schedule}}
NoDraft == [title |-> "none", start |-> 0]
\* the calendar get_user_primary_calendar_id finds, and the fallback of line 387
CalendarIds == {"cal_user", "primary"}
EventKeys == {<<c, d.title, d.start>> : c \in CalendarIds, d \in Drafts}
NoLocals == [draft |-> NoDraft, calendar_id |-> "none",
             result |-> [arity |-> 0, success |-> FALSE, calendar_id |-> "none",
                         event_id |-> "none"]]
\* per run: its outcome; whether a matching event existed when the create
\* request was sent; whether one was sent; how the calendar lookup went; the
\* calendar the create request named; whether the API created the event and
\* the id it gave; how the attendee call went and what it named; the
\* identifiers handed to the success card and whether the card got the link
NoCardIds == [calendar_id |-> "none", event_id |-> "none"]
NoRun == [outcome |-> "none", existed |-> FALSE, create_issued |-> FALSE,
          lookup |-> "none", create_on |-> "none", created |-> FALSE,
          created_id |-> "none", attendee |-> "none", attendee_on |-> "none",
          attendee_for |-> "none", card |-> NoCardIds, link |-> FALSE]

\* an event with this title and start is on the calendar
EventExists(ev, calendar_id, d) == ev[<<calendar_id, d.title, d.start>>] > 0

\* a lookup whose result is ignored
TargetCalendar_always_primary(found) == "primary"

\* get_user_primary_calendar_id (lines 276-314) and the fallback of
\* create_calendar_event lines 383-387
TargetCalendar(found) == IF found THEN "cal_user" ELSE "primary"

\* create_calendar_event lines 389-415 for the event d on calendar_id: the
\* create request is sent whatever the calendar holds; api is what the
\* calendar API does with it.  The value is the calendar afterwards and the
\* tuple the method returns: (True, calendar_id, event_id) on success,
\* (False, error_msg) when the API answers with an error, and
\* (False, None, str(e)) when a call raises.
create_calendar_event(ev, calendar_id, d, api) ==
    CASE api = "created" ->
           [events |-> [ev EXCEPT ![<<calendar_id, d.title, d.start>>] = @ + 1],
            result |-> [arity |-> 3, success |-> TRUE, calendar_id |-> calendar_id,
                        event_id |-> "evt"]]
      [] api = "created_no_data" ->
           \* line 402: the response carries no event, event_id is None
           [events |-> [ev EXCEPT ![<<calendar_id, d.title, d.start>>] = @ + 1],
            result |-> [arity |-> 3, success |-> TRUE, calendar_id |-> calendar_id,
                        event_id |-> "none"]]
      [] api = "api_error" ->
           [events |-> ev,
            result |-> [arity |-> 2, success |-> FALSE, calendar_id |-> "none",
                        event_id |-> "none"]]
      [] OTHER ->
           [events |-> ev,
            result |-> [arity |-> 3, success |-> FALSE, calendar_id |-> "none",
                        event_id |-> "none"]]

\* a create that is sent again after the API refused it
AfterCreate_retry(result) ==
    IF result.success THEN "svc_attendee"
    ELSE IF result.arity = 2 THEN "svc_create" ELSE "svc_reply"

\* create_calendar_event lines 397-400 and 413-415: an error response or an
\* exception returns at once; only a created event goes on to line 402
AfterCreate(result) ==
    IF result.success THEN "svc_attendee" ELSE "svc_reply"

\* an enrollment attempted whatever the create call returned
AttendeeDue_always(result, open_id_given) == TRUE

\* create_calendar_event line 407: if event_id and user_open_id
AttendeeDue(result, open_id_given) ==
    result.event_id # "none" /\ open_id_given

\* a create_calendar_event that reports failure when the enrollment fails
AfterAttendee_downgrade(result, outcome) ==
    IF outcome = "added" THEN result
    ELSE [result EXCEPT !.success = FALSE, !.calendar_id = "none",
                        !.event_id = "none"]

\* create_calendar_event lines 408-411: the value of _add_event_attendee
\* (True, or False after an error response or an exception, lines 447-456)
\* is dropped and (True, calendar_id, event_id) is returned
AfterAttendee(result, outcome) == result

\* a handler that unpacks the result into two names, as voice_handler.py
\* line 91 does: a 3-tuple raises ValueError
HandlerOutcome_two_names(result) ==
    CASE result.arity # 2 -> "Error"
      [] result.success -> "Created"
      [] OTHER -> "Fallback"

\* TextHandler.handle lines 71-118: what the user is told for a result tuple.
\* A 2-tuple cannot be unpacked into three names: the ValueError is caught at
\* line 113 and answered with the generic error text.
HandlerOutcome(result) ==
    CASE result.arity # 3 -> "Error"
      [] result.success -> "Created"
      [] result.calendar_id = "duplicate" -> "Duplicate"
      [] OTHER -> "Fallback"

\* TextHandler.handle lines 26-68: a text message arrives; the LLM finds a
\* schedule in it or not
SvcReceive(p, m, kind, d) ==
    /\ entry = "svc"
    /\ pc[p] = "idle"
    /\ runs[m].outcome = "none"
    /\ \A q \in Procs : pc[q] # "idle" => msg[q] # m
    /\ msg' = [msg EXCEPT ![p] = m]
    /\ CASE kind = "empty_text" ->
              /\ runs' = [runs EXCEPT ![m].outcome = "Ignored"]
              /\ handled' = [handled EXCEPT ![m].type = "text", ![m].done = TRUE]
              /\ UNCHANGED <<pc, svc>>
         [] kind = "no_schedule" ->
              /\ runs' = [runs EXCEPT ![m].outcome = "NoSchedule"]
              /\ handled' = [handled EXCEPT ![m].type = "text",
                                            ![m].calls = <<"extract", "reason">>,
                                            ![m].done = TRUE]
              /\ UNCHANGED <<pc, svc>>
         [] OTHER ->
              \* lines 52-63: the date, start_time and end_time of the draft
              /\ \E s \in Schedules :
                    /\ s.has_schedule
                    /\ EventTimes(s).start = d.start
                    /\ handled' = [handled EXCEPT ![m].type = "text",
                                                  ![m].schedule = s,
                                                  ![m].resolved = EventTimes(s),
                                                  ![m].calls = <<"extract">>]
              /\ pc' = [pc EXCEPT ![p] = "svc_primary"]
              /\ svc' = [svc EXCEPT ![p] = [NoLocals EXCEPT !.draft = d]]
              /\ UNCHANGED runs
    /\ UNCHANGED <<clock, ticks, dedupVars, deployVars, appVars, events>>

\* create_calendar_event lines 338-387
SvcPrimary(p, found) ==
    /\ pc[p] = "svc_primary"
    /\ svc' = [svc EXCEPT ![p].calendar_id = TargetCalendar(found)]
    /\ runs' = [runs EXCEPT ![msg[p]].lookup = IF found THEN "found" ELSE "failed"]
    /\ pc' = [pc EXCEPT ![p] = "svc_create"]
    /\ handled' = [handled EXCEPT ![msg[p]].calls = Append(@, "calendar_list")]
    /\ UNCHANGED <<clock, ticks, dedupVars, deployVars, appVars, msg, events>>

\* create_calendar_event lines 389-415
SvcCreate(p, api) ==
    /\ pc[p] = "svc_create"
    /\ api \in {"created", "created_no_data", "api_error", "exception"}
    /\ LET l == svc[p]
           r == create_calendar_event(events, l.calendar_id, l.draft, api)
       IN  /\ events' = r.events
           /\ svc' = [svc EXCEPT ![p].result = r.result]
           /\ runs' = [runs EXCEPT ![msg[p]] =
                          [@ EXCEPT !.existed = EventExists(events, l.calendar_id, l.draft),
                                    !.create_issued = TRUE,
                                    !.create_on = l.calendar_id,
                                    !.created = api \in {"created", "created_no_data"},
                                    !.created_id = IF api = "created" THEN "evt"
                                                   ELSE "none"]]
           /\ pc' = [pc EXCEPT ![p] = AfterCreate(r.result)]
    /\ handled' = [handled EXCEPT ![msg[p]].calls = Append(@, "create"),
                                  ![msg[p]].event = handled[msg[p]].resolved]
    /\ UNCHANGED <<clock, ticks, dedupVars, deployVars, appVars, msg>>

\* create_calendar_event lines 405-411 and _add_event_attendee lines 417-456:
\* the sender is enrolled in the created event when there is an event id and
\* an open_id; the enrollment succeeds, is refused, or raises
SvcAttendee(p, open_id_given, outcome) ==
    /\ pc[p] = "svc_attendee"
    /\ outcome \in {"added", "error", "raises"}
    /\ LET l == svc[p]
           m == msg[p]
       IN  IF AttendeeDue(l.result, open_id_given)
           THEN /\ runs' = [runs EXCEPT ![m] =
                               [@ EXCEPT !.attendee = outcome,
                                         !.attendee_on = l.calendar_id,
                                         !.attendee_for = l.result.event_id]]
                /\ handled' = [handled EXCEPT ![m].calls = Append(@, "attendee")]
                /\ svc' = [svc EXCEPT ![p].result = AfterAttendee(l.result, outcome)]
           ELSE UNCHANGED <<runs, handled, svc>>
    /\ pc' = [pc EXCEPT ![p] = "svc_reply"]
    /\ UNCHANGED <<clock, ticks, dedupVars, deployVars, appVars, msg, events>>

\* TextHandler.handle lines 79-118
\* a success card called without the identifiers, as voice_handler.py lines
\* 101-108 call it
CardArgs_no_ids(result) == NoCardIds

\* TextHandler.handle lines 81-90: calendar_id and event_id of the result
\* tuple are the card's keyword arguments
CardArgs(result) ==
    [calendar_id |-> result.calendar_id, event_id |-> result.event_id]

\* reply_schedule_created_card line 520: if calendar_id and event_id
CardHasLink(ids) == ids.calendar_id # "none" /\ ids.event_id # "none"

SvcReply(p) ==
    /\ pc[p] = "svc_reply"
    /\ LET o == HandlerOutcome(svc[p].result)
           ids == IF o = "Created" THEN CardArgs(svc[p].result) ELSE NoCardIds
       IN  runs' = [runs EXCEPT ![msg[p]] =
                      [@ EXCEPT !.outcome = o,
                                !.card = ids,
                                !.link = o = "Created" /\ CardHasLink(ids)]]
    /\ svc' = [svc EXCEPT ![p] = NoLocals]
    /\ handled' = [handled EXCEPT ![msg[p]].done = TRUE]
    /\ pc' = [pc EXCEPT ![p] = "idle"]
    /\ msg' = [msg EXCEPT ![p] = NoMsg]
    /\ UNCHANGED <<clock, ticks, dedupVars, deployVars, appVars, events>>

\* ------------------- src/main.py (routing), src/handlers, src/services/volcano_ai.py

\* message types the long connection delivers; "file" stands for every type
\* other than text, image and audio
BotMessageTypes == {"text", "image", "audio", "file"}

\* parameters of FeishuClient.create_calendar_event (feishu_client.py lines
\* 316-324) and those among them that have no default
CreateParams == {"user_open_id", "title", "start_time", "end_time", "location",
                 "description"}
CreateRequired == {"user_open_id", "title", "start_time", "end_time"}
\* keyword arguments of the call in text_handler.py lines 69-75 and
\* image_handler.py lines 82-88
TextCreateKwargs == {"user_id", "summary", "start_time", "end_time", "location"}

\* a call by keywords binds when every keyword names a parameter and every
\* parameter without a default is given; otherwise Python raises TypeError
\* before the body of the function runs
Binds(kwargs) ==
    /\ kwargs \subseteq CreateParams
    /\ CreateRequired \subseteq kwargs

\* VolcanoAI.asr_audio lines 236-250: None without the access keys, and None
\* with them (the recognition is not implemented)
asr_audio(configured) == IF ~configured THEN "" ELSE ""

\* a voice handler that returns without a word when recognition gives nothing
VoiceAfterAsr_silent(asr_text) == IF asr_text = "" THEN "return" ELSE "extract"

\* voice_handler.py lines 52-65: what follows the recognition
VoiceAfterAsr(asr_text) == IF asr_text = "" THEN "asr_unavailable" ELSE "extract"

\* a handler that goes on to the calendar whatever the extractor found
AfterExtract_always_create(d) == "create"

\* text_handler.py lines 49-52 and 54-75: what follows the extraction
AfterExtract(d) == IF ~d.has_schedule THEN "reason" ELSE "create"

\* an id that is recorded only once its handling is over
MarkProcessed_deferred(d, m, now) == d

\* handle_message_event line 99: processed_messages[message_id] = current_time
MarkProcessed(d, m, now) ==
    {e \in d : e.message_id # m} \cup {[message_id |-> m, timestamp |-> now]}

\* what no step of the handlers changes
botFixed == <<clock, ticks, dedupVars, deployVars, appVars, events, svc, runs>>

\* the handling of the message of worker p ends
BotDone(p) ==
    /\ pc' = [pc EXCEPT ![p] = "idle"]
    /\ msg' = [msg EXCEPT ![p] = NoMsg]

\* handle_message_event lines 87-141: a message that passed the duplicate
\* test is routed by its type.  image_handler.handle is a coroutine function
\* (image_handler.py line 22): the call of line 127 builds a coroutine object
\* that nothing awaits, so none of its body runs.
handle_message_event(p, m, type) ==
    /\ entry = "bot"
    /\ pc[p] = "idle"
    /\ type \in BotMessageTypes
    /\ IF DictHas(processed_messages, m)
       THEN \* lines 94-96: the id is in processed_messages, the delivery is
            \* dropped, whatever became of the first one
            /\ handled' = [handled EXCEPT ![m].again =
                              IF handled[m].done THEN "dropped_after"
                              ELSE IF @ = "none" THEN "dropped_during" ELSE @]
            /\ UNCHANGED <<pc, msg, processed_messages>>
       ELSE \* line 99: the id is recorded before the message is handled
            /\ processed_messages' = MarkProcessed(processed_messages, m, clock)
            /\ CASE type = "text" ->
                      /\ pc' = [pc EXCEPT ![p] = "b_text"]
                      /\ msg' = [msg EXCEPT ![p] = m]
                      /\ handled' = [handled EXCEPT ![m].type = type]
                 [] type = "image" ->
                      /\ handled' = [handled EXCEPT ![m].type = type, ![m].done = TRUE]
                      /\ UNCHANGED <<pc, msg>>
                 [] type = "audio" ->
                      /\ pc' = [pc EXCEPT ![p] = "b_audio"]
                      /\ msg' = [msg EXCEPT ![p] = m]
                      /\ handled' = [handled EXCEPT ![m].type = type]
                 [] OTHER ->
                      /\ pc' = [pc EXCEPT ![p] = "b_reply"]
                      /\ msg' = [msg EXCEPT ![p] = m]
                      /\ handled' = [handled EXCEPT ![m].type = type,
                                                    ![m].reply = "unsupported"]
    /\ UNCHANGED <<clock, ticks, storeVars, others, current_time, obsVars,
                   restarts, deployVars, appVars, events, svc, runs>>

\* TextHandler.handle lines 29-75 (src/handlers/text_handler.py): an empty
\* text returns at once; otherwise the extractor is called and either its
\* reason is sent back or the calendar call is made.  The keywords of that
\* call do not bind, so TypeError is raised at line 69 and caught at line 91.
TextHandle(p, content, d) ==
    /\ pc[p] = "b_text"
    /\ content \in {"empty", "text"}
    /\ LET m == msg[p] IN
       IF content = "empty"
       THEN /\ handled' = [handled EXCEPT ![m].done = TRUE]
            /\ BotDone(p)
       ELSE LET h == [handled[m] EXCEPT !.calls = Append(@, "extract"),
                                        !.schedule = d,
                                        !.resolved = IF AfterExtract(d) = "reason"
                                                     THEN NoEvent
                                                     ELSE EventTimes(d)]
            IN  /\ UNCHANGED msg
                /\ IF AfterExtract(d) = "reason"
                   THEN /\ handled' = [handled EXCEPT ![m] = [h EXCEPT !.reply = "reason"]]
                        /\ pc' = [pc EXCEPT ![p] = "b_reply"]
                   ELSE IF Binds(TextCreateKwargs)
                   THEN /\ handled' = [handled EXCEPT ![m] =
                                          [h EXCEPT !.event = h.resolved]]
                        /\ pc' = [pc EXCEPT ![p] = "b_create"]
                   ELSE /\ handled' = [handled EXCEPT ![m] = h]
                        /\ pc' = [pc EXCEPT ![p] = "b_generic"]
    /\ UNCHANGED botFixed

\* VoiceHandler.handle lines 30-48: the file key and the download
VoiceDownload(p, outcome) ==
    /\ pc[p] = "b_audio"
    /\ outcome \in {"no_file_key", "failed", "raises", "bytes"}
    /\ LET m == msg[p] IN
       CASE outcome = "no_file_key" ->
              /\ handled' = [handled EXCEPT ![m].done = TRUE]
              /\ BotDone(p)
         [] outcome = "failed" ->
              /\ handled' = [handled EXCEPT ![m].calls = Append(@, "download"),
                                            ![m].reply = "download_failed"]
              /\ pc' = [pc EXCEPT ![p] = "b_reply"]
              /\ UNCHANGED msg
         [] outcome = "raises" ->
              /\ handled' = [handled EXCEPT ![m].calls = Append(@, "download")]
              /\ pc' = [pc EXCEPT ![p] = "b_generic"]
              /\ UNCHANGED msg
         [] OTHER ->
              /\ handled' = [handled EXCEPT ![m].calls = Append(@, "download")]
              /\ pc' = [pc EXCEPT ![p] = "b_asr"]
              /\ UNCHANGED msg
    /\ UNCHANGED botFixed

\* VoiceHandler.handle lines 50-65: the recognition and what follows it
VoiceAsr(p, configured) ==
    /\ pc[p] = "b_asr"
    /\ LET m == msg[p]
           next == VoiceAfterAsr(asr_audio(configured))
           h == [handled[m] EXCEPT !.calls = Append(@, "asr")]
       IN  CASE next = "asr_unavailable" ->
                  /\ handled' = [handled EXCEPT ![m] = [h EXCEPT !.reply = next]]
                  /\ pc' = [pc EXCEPT ![p] = "b_reply"]
                  /\ UNCHANGED msg
             [] next = "extract" ->
                  /\ handled' = [handled EXCEPT ![m] = h]
                  /\ pc' = [pc EXCEPT ![p] = "b_voice_extract"]
                  /\ UNCHANGED msg
             [] OTHER ->
                  /\ handled' = [handled EXCEPT ![m] = [h EXCEPT !.done = TRUE]]
                  /\ BotDone(p)
    /\ UNCHANGED botFixed

\* the time limit, in seconds, of a network call.  The httpx requests of
\* src/app carry timeout=15 or 30 (src/app/feishu_client.py lines 20, 50, 65,
\* src/app/calendar_client.py lines 18, 42); the client of
\* src/services/feishu_client.py is built at lines 28-32 without a timeout and
\* its requests (lines 37-61 and the others) pass none
Unbounded == -1
CallTimeout(call) ==
    CASE call \in {"app_store", "send_post", "calendar"} -> 15
      [] call = "download" -> 30
      [] OTHER -> Unbounded

\* what becomes of a request whose peer never answers: the time limit raises
\* in the caller; without one the caller waits on
AfterStall(call) ==
    IF CallTimeout(call) = Unbounded THEN "waits" ELSE "raises"

\* FeishuClient.reply_message lines 37-61 called with the pending text: the
\* reply is delivered, refused by the platform (the method returns False),
\* the request raises, or the platform never answers.  An exception inside a
\* handler goes to its except clause; one raised by the reply of main.py
\* line 134 goes to line 143.
Reply(p, how) ==
    /\ pc[p] = "b_reply"
    /\ how \in {"sent", "refused", "raises", AfterStall("reply")}
    /\ LET m == msg[p]
           kind == handled[m].reply
           h == [handled[m] EXCEPT !.calls = Append(@, kind),
                                   !.reply = "none",
                                   !.told = IF how = "sent" THEN kind ELSE @]
       IN  IF how = "waits"
           THEN /\ handled' = [handled EXCEPT ![m] = h]
                /\ pc' = [pc EXCEPT ![p] = "b_stalled"]
                /\ UNCHANGED msg
           ELSE IF how = "raises" /\ handled[m].type \in {"text", "audio"}
           THEN /\ handled' = [handled EXCEPT ![m] = h]
                /\ pc' = [pc EXCEPT ![p] = "b_generic"]
                /\ UNCHANGED msg
           ELSE /\ handled' = [handled EXCEPT ![m] = [h EXCEPT !.done = TRUE]]
                /\ BotDone(p)
    /\ UNCHANGED botFixed

\* the except clause of a handler (text_handler.py lines 91-96,
\* voice_handler.py lines 121-126): the generic error text is sent, and an
\* exception of that reply is swallowed
GenericReply(p, how) ==
    /\ pc[p] = "b_generic"
    /\ how \in {"sent", "refused", "raises"}
    /\ LET m == msg[p] IN
       handled' = [handled EXCEPT ![m].calls = Append(@, "generic"),
                                  ![m].told = IF how = "sent" THEN "generic" ELSE @,
                                  ![m].done = TRUE]
    /\ BotDone(p)
    /\ UNCHANGED botFixed

\* ------------------------- src/app/storage.py, src/app/main.py (user tokens)

Users == {"u1", "u2"}
\* expires_in of the token response: missing (0), or one second beyond the
\* margin of oauth_callback line 50
UserExpiresIn == {0, ExpiryMargin + 1}
NoUserToken == [access_token |-> 0, expire_at |-> 0]
\* the verification token of a payload, against settings.feishu_verification_token
PayloadTokens == {"good", "wrong", "absent"}
\* n numbers the requests in the order of their arrival
NoReq == [n |-> 0, user |-> "none", payload_token |-> "none", data |-> <<>>,
          token |-> NoUserToken, checked_at |-> 0]
NoLog == [last_set |-> [u \in Users |-> NoUserToken], calendar |-> {},
          prompts |-> {}, effects |-> {}]

\* get_user_token with < in place of <=
get_user_token_late(file, u, now) ==
    LET token == file[u]
    IN  IF token = NoUserToken THEN NoUserToken
        ELSE IF token.expire_at # 0 /\ token.expire_at < now THEN NoUserToken
        ELSE token

\* TokenStore.get_user_token (lines 24-32): NoUserToken stands for None
get_user_token(file, u, now) ==
    LET token == file[u]
    IN  IF token = NoUserToken THEN NoUserToken
        ELSE IF token.expire_at # 0 /\ token.expire_at <= now THEN NoUserToken
        ELSE token

\* feishu_event line 67: if body.get("token") and body.get("token") != ...
TokenRejected(payload_token) ==
    payload_token # "absent" /\ payload_token # "good"

\* a side effect of the request of worker p
Effect(p, what) == [payload_token |-> req[p].payload_token, what |-> what]

OaDone(p) ==
    /\ pc' = [pc EXCEPT ![p] = "idle"]
    /\ req' = [req EXCEPT ![p] = NoReq]

\* oauth_callback lines 29-43: the parameters, the code exchange and the
\* access_token of the answer; lines 45-52 build the token to store
oauth_callback(p, u, answer, expires_in) ==
    /\ entry = "oauth"
    /\ pc[p] = "idle"
    /\ nops < MaxRequests
    /\ nops' = nops + 1
    /\ answer \in {"missing_params", "exchange_raises", "no_access_token", "token"}
    /\ IF answer = "token"
       THEN /\ req' = [req EXCEPT ![p] =
                         [NoReq EXCEPT !.user = u,
                                       !.token = [access_token |-> nops + 1,
                                                  expire_at |-> clock + expires_in - ExpiryMargin]]]
            /\ pc' = [pc EXCEPT ![p] = "set_read"]
       ELSE UNCHANGED <<pc, req>>
    /\ UNCHANGED <<clock, ticks, dedupVars, msg, entry, token_cache, deadline, frame,
                   tret, create_calls, replies, send_configured, after_fail,
                   svcVars, token_file, oauth_log>>

\* TokenStore.set_user_token line 35: data = self._read()
SetRead(p) ==
    /\ pc[p] = "set_read"
    /\ req' = [req EXCEPT ![p].data = token_file]
    /\ pc' = [pc EXCEPT ![p] = "set_write"]
    /\ UNCHANGED <<clock, ticks, dedupVars, msg, entry, appVars, svcVars,
                   token_file, oauth_log>>

\* TokenStore.set_user_token lines 36-37: data[user_id] = token; self._write(data)
SetWrite(p) ==
    /\ pc[p] = "set_write"
    /\ token_file' = [req[p].data EXCEPT ![req[p].user] = req[p].token]
    /\ oauth_log' = [oauth_log EXCEPT !.last_set[req[p].user] = req[p].token]
    /\ OaDone(p)
    /\ UNCHANGED <<clock, ticks, dedupVars, msg, entry, appVars, svcVars>>

\* feishu_event lines 56-102: the payload is checked and the message read
OaReceive(p, u, payload_token, kind) ==
    /\ entry = "oauth"
    /\ pc[p] = "idle"
    /\ nops < MaxRequests
    /\ nops' = nops + 1
    /\ kind \in {"url_verification", "no_sender", "file", "image", "text"}
    /\ IF kind = "url_verification"
          \/ TokenRejected(payload_token)
          \/ kind \in {"no_sender", "file"}
       THEN UNCHANGED <<pc, req>>
       ELSE /\ req' = [req EXCEPT ![p] = [NoReq EXCEPT !.n = nops + 1,
                                                      !.user = u,
                                                      !.payload_token = payload_token]]
            /\ pc' = [pc EXCEPT ![p] = IF kind = "image" THEN "oa_download"
                                      ELSE "oa_extract"]
    /\ UNCHANGED <<clock, ticks, dedupVars, msg, entry, token_cache, deadline, frame,
                   tret, create_calls, replies, send_configured, after_fail,
                   svcVars, token_file, oauth_log>>

\* feishu_event lines 91-100: the download of the image and its OCR
OaDownload(p, outcome) ==
    /\ pc[p] = "oa_download"
    /\ outcome \in {"http_error", "ocr_error", "text"}
    /\ oauth_log' = [oauth_log EXCEPT !.effects =
                        @ \cup {Effect(p, "download")}
                          \cup IF outcome = "ocr_error" THEN {Effect(p, "send")} ELSE {}]
    /\ IF outcome = "text"
       THEN /\ pc' = [pc EXCEPT ![p] = "oa_extract"]
            /\ UNCHANGED req
       ELSE OaDone(p)
    /\ UNCHANGED <<clock, ticks, dedupVars, msg, entry, appVars, svcVars, token_file>>

\* feishu_event lines 104-119: extract_event, then the stored token of the
\* sender; without one the authorization prompt is sent
OaExtract(p, found) ==
    /\ pc[p] = "oa_extract"
    /\ LET token == get_user_token(token_file, req[p].user, clock)
       IN  IF ~found
           THEN /\ oauth_log' = [oauth_log EXCEPT !.effects = @ \cup {Effect(p, "send")}]
                /\ OaDone(p)
           ELSE IF token = NoUserToken
           THEN /\ oauth_log' =
                      [oauth_log EXCEPT !.effects = @ \cup {Effect(p, "send")},
                                        !.prompts = @ \cup {[n |-> req[p].n,
                                                             user |-> req[p].user,
                                                             stored |-> token_file[req[p].user],
                                                             at |-> clock]}]
                /\ OaDone(p)
           ELSE /\ req' = [req EXCEPT ![p].token = token, ![p].checked_at = clock]
                /\ pc' = [pc EXCEPT ![p] = "oa_primary"]
                /\ UNCHANGED oauth_log
    /\ UNCHANGED <<clock, ticks, dedupVars, msg, entry, appVars, svcVars, token_file>>

\* a calendar request sent with the token of the request
CalendarCall(p, what) ==
    [n |-> req[p].n, user |-> req[p].user, token |-> req[p].token,
     at |-> req[p].checked_at, what |-> what]

\* feishu_event line 121: get_primary_calendar_id
OaPrimary(p, ok) ==
    /\ pc[p] = "oa_primary"
    /\ oauth_log' = [oauth_log EXCEPT !.calendar = @ \cup {CalendarCall(p, "primary")},
                                      !.effects = @ \cup {Effect(p, "primary")}]
    /\ IF ok
       THEN /\ pc' = [pc EXCEPT ![p] = "oa_create"]
            /\ UNCHANGED req
       ELSE OaDone(p)
    /\ UNCHANGED <<clock, ticks, dedupVars, msg, entry, appVars, svcVars, token_file>>

\* feishu_event lines 137-139: create_event and the reply
OaCreate(p, ok) ==
    /\ pc[p] = "oa_create"
    /\ oauth_log' = [oauth_log EXCEPT !.calendar = @ \cup {CalendarCall(p, "create")},
                                      !.effects = @ \cup {Effect(p, "create")}
                                                    \cup IF ok THEN {Effect(p, "send")}
                                                         ELSE {}]
    /\ OaDone(p)
    /\ UNCHANGED <<clock, ticks, dedupVars, msg, entry, appVars, svcVars, token_file>>

\* a second passes between two requests
OaTick ==
    /\ entry = "oauth"
    /\ ticks < MaxTicks
    /\ \A p \in Procs : pc[p] = "idle"
    /\ clock' = clock + 1
    /\ ticks' = ticks + 1
    /\ UNCHANGED <<dedupVars, pc, msg, entry, appVars, svcVars, oauthVars>>

\* ---------------------------------------------------------- specifications

InitOAuth ==
    /\ token_file = [u \in Users |-> NoUserToken]
    /\ req = [p \in Procs |-> NoReq]
    /\ oauth_log = NoLog

InitSvc ==
    /\ events = [k \in EventKeys |-> 0]
    /\ svc = [p \in Procs |-> NoLocals]
    /\ runs = [m \in MsgIds |-> NoRun]
    /\ handled = [m \in MsgIds |-> NoHandling]

InitApp ==
    /\ token_cache = {}
    /\ deadline = <<>>
    /\ frame = [p \in Procs |-> NoFrame]
    /\ tret = NoCall
    /\ create_calls = [m \in MsgIds |-> 0]
    /\ replies = [m \in MsgIds |-> 0]
    /\ send_configured = FALSE
    /\ nops = 0
    /\ after_fail = "none"

InitStore ==
    /\ window_seconds \in StoreWindows
    /\ cleanup_interval_seconds \in StoreIntervals
    /\ last_cleanup = 0
    /\ rows = {}
    /\ disk = {}

InitBot ==
    /\ processed_messages = {}
    /\ others \in {0, MAX_PROCESSED_MESSAGES}
    /\ pc = [p \in Procs |-> "idle"]
    /\ msg = [p \in Procs |-> NoMsg]
    /\ current_time = [p \in Procs |-> 0]

InitObs ==
    /\ clock = StartTime
    /\ ticks = 0
    /\ admits = [m \in MsgIds |-> <<>>]
    /\ rejects = [m \in MsgIds |-> {}]
    /\ raised = [m \in MsgIds |-> {}]
    /\ routed = [m \in MsgIds |-> 0]
    /\ routed_on_error = 0
    /\ restarts = 0

Init ==
    /\ entry \in {"db", "mem"}
    /\ InitStore
    /\ InitBot
    /\ InitObs
    /\ InitApp
    /\ InitSvc
    /\ InitOAuth

\* one event is handled at a time (the dispatcher calls the handler synchronously)
Next ==
    \/ \E d \in TickSteps : Tick(d)
    \/ \E m \in MsgIds : StoreDeliver(m, "none")
    \/ \E p \in Procs, m \in MsgIds : Alone(p) /\ Receive(p, m)
    \/ \E p \in Procs : Check(p)
    \/ \E p \in Procs : Mark(p)
    \/ \E p \in Procs : Purge(p)
    \/ \E p \in Procs : Route(p)

Spec == Init /\ [][Next]_vars

\* the same, with one stop and start of the process
NextRestart ==
    \/ Next
    \/ Restart

SpecRestart == Init /\ [][NextRestart]_vars

\* a DedupStore whose sqlite calls can fail
InitFaulty ==
    /\ entry = "db"
    /\ InitStore
    /\ InitBot
    /\ others = 0
    /\ InitObs
    /\ InitApp
    /\ InitSvc
    /\ InitOAuth

NextFaulty ==
    \/ \E d \in TickSteps : Tick(d)
    \/ \E m \in MsgIds, f \in Faults : StoreDeliver(m, f)

SpecFaulty == InitFaulty /\ [][NextFaulty]_vars

\* a DedupStore alone, its sqlite calls succeeding
InitStoreOnly ==
    /\ entry = "db"
    /\ InitStore
    /\ InitBot
    /\ others = 0
    /\ InitObs
    /\ InitApp
    /\ InitSvc
    /\ InitOAuth

NextStoreOnly ==
    \/ \E d \in TickSteps : Tick(d)
    \/ \E m \in MsgIds : StoreDeliver(m, "none")

SpecStore == InitStoreOnly /\ [][NextStoreOnly]_vars

\* handle_message_event run by several workers at once
InitRace ==
    /\ entry = "mem"
    /\ InitStore
    /\ InitBot
    /\ InitObs
    /\ InitApp
    /\ InitSvc
    /\ InitOAuth

NextRace ==
    \/ \E d \in TickSteps : Tick(d)
    \/ \E p \in Procs, m \in MsgIds : Receive(p, m)
    \/ \E p \in Procs : Check(p)
    \/ \E p \in Procs : Mark(p)
    \/ \E p \in Procs : Purge(p)
    \/ \E p \in Procs : Route(p)

SpecRace == InitRace /\ [][NextRace]_vars


\* the FeishuClient of src/app called by one client at a time
InitToken ==
    /\ entry = "app"
    /\ InitStore
    /\ window_seconds = MESSAGE_DEDUP_WINDOW
    /\ cleanup_interval_seconds = MESSAGE_DEDUP_WINDOW
    /\ InitBot
    /\ others = 0
    /\ InitObs
    /\ InitApp
    /\ InitSvc
    /\ InitOAuth

NextToken ==
    \/ \E d \in AppTickSteps : AppTick(d)
    \/ \E k \in {"app", "tenant"} : StartCall(MainThread, k)
    \/ \E p \in Procs : GetTenantCheck(p)
    \/ \E p \in Procs : GetAppCheck(p)
    \/ \E p \in Procs, how \in PostFailures : GetAppPostFails(p, how)
    \/ \E p \in Procs, r \in Responses : GetAppPost(p, r)
    \/ \E p \in Procs : GetAppStore(p)
    \/ \E p \in Procs : GetTenantRead(p)

SpecToken == InitToken /\ [][NextToken]_vars

\* the FeishuClient of src/app shared by several threads: the class holds no
\* lock, and a thread can be suspended between any two of its statements.
\* Line 29 builds the dictionary and binds it to self._token_cache in one
\* assignment, so every read of the attribute sees a whole record.  The calls
\* race within one second of the wall clock: a credential whose life is below
\* the margin is expired the moment it is stored, the others stay valid.
InitTokenRace == InitToken

\* a thread calls get_app_access_token or get_tenant_access_token
ThreadCall(p, kind) ==
    /\ nops < MaxRaceCalls
    /\ StartCall(p, kind)

NextTokenRace ==
    \/ \E p \in Procs, k \in {"app", "tenant"} : ThreadCall(p, k)
    \/ \E p \in Procs : GetTenantCheck(p)
    \/ \E p \in Procs : GetAppCheck(p)
    \/ \E p \in Procs, how \in PostFailures : GetAppPostFails(p, how)
    \/ \E p \in Procs, r \in Responses : GetAppPost(p, r)
    \/ \E p \in Procs : GetAppStore(p)
    \/ \E p \in Procs : GetTenantRead(p)

SpecTokenRace == InitTokenRace /\ [][NextTokenRace]_vars

\* the webhook server
InitWebhook ==
    /\ entry = "app"
    /\ InitStore
    /\ window_seconds = MESSAGE_DEDUP_WINDOW
    /\ cleanup_interval_seconds = MESSAGE_DEDUP_WINDOW
    /\ InitBot
    /\ others = 0
    /\ InitObs
    /\ token_cache = {}
    /\ deadline = <<>>
    /\ frame = [p \in Procs |-> NoFrame]
    /\ tret = NoCall
    /\ create_calls = [m \in MsgIds |-> 0]
    /\ replies = [m \in MsgIds |-> 0]
    /\ send_configured \in BOOLEAN
    /\ nops = 0
    /\ after_fail = "none"
    /\ InitSvc
    /\ InitOAuth

NextWebhook ==
    \/ \E d \in AppTickSteps : AppTick(d)
    \/ \E m \in MsgIds, t \in MessageTypes : feishu_event(MainThread, m, t)
    \/ \E p \in Procs : GetTenantCheck(p)
    \/ \E p \in Procs : GetAppCheck(p)
    \/ \E p \in Procs, how \in PostFailures : GetAppPostFails(p, how)
    \/ \E p \in Procs, r \in Responses : GetAppPost(p, r)
    \/ \E p \in Procs : GetAppStore(p)
    \/ \E p \in Procs : GetTenantRead(p)
    \/ \E p \in Procs, o \in {"http_error", "ocr_error", "text"} : WhDownload(p, o)
    \/ \E p \in Procs, found \in BOOLEAN, authorised \in BOOLEAN :
          WhExtract(p, found, authorised)
    \/ \E p \in Procs, o \in {"primary_error", "create_error", "created"} :
          WhCalendar(p, o)
    \/ \E p \in Procs : WhSend(p)
    \/ \E p \in Procs, ok \in BOOLEAN : WhSendPost(p, ok)

SpecWebhook == InitWebhook /\ [][NextWebhook]_vars

\* the text handler of the calendar bot, run by several workers
InitService ==
    /\ entry = "svc"
    /\ InitStore
    /\ window_seconds = MESSAGE_DEDUP_WINDOW
    /\ cleanup_interval_seconds = MESSAGE_DEDUP_WINDOW
    /\ InitBot
    /\ others = 0
    /\ InitObs
    /\ InitApp
    /\ InitSvc
    /\ InitOAuth

NextService ==
    \/ \E p \in Procs, m \in MsgIds, d \in Drafts,
          kind \in {"empty_text", "no_schedule", "schedule"} :
             SvcReceive(p, m, kind, d)
    \/ \E p \in Procs, found \in BOOLEAN : SvcPrimary(p, found)
    \/ \E p \in Procs, api \in {"created", "created_no_data", "api_error", "exception"} :
          SvcCreate(p, api)
    \/ \E p \in Procs, given \in BOOLEAN, o \in {"added", "error", "raises"} :
          SvcAttendee(p, given, o)
    \/ \E p \in Procs : SvcReply(p)

SpecService == InitService /\ [][NextService]_vars

\* the long-connection bot of src/main.py with the handlers of src/handlers
InitHandlers ==
    /\ entry = "bot"
    /\ InitStore
    /\ window_seconds = MESSAGE_DEDUP_WINDOW
    /\ cleanup_interval_seconds = MESSAGE_DEDUP_WINDOW
    /\ InitBot
    /\ others = 0
    /\ InitObs
    /\ InitApp
    /\ InitSvc
    /\ InitOAuth

NextHandlers ==
    \/ \E p \in Procs, m \in MsgIds, t \in BotMessageTypes :
          handle_message_event(p, m, t)
    \/ \E p \in Procs, content \in {"empty", "text"}, d \in Schedules :
          TextHandle(p, content, d)
    \/ \E p \in Procs, o \in {"no_file_key", "failed", "raises", "bytes"} :
          VoiceDownload(p, o)
    \/ \E p \in Procs, configured \in BOOLEAN : VoiceAsr(p, configured)
    \/ \E p \in Procs, how \in {"sent", "refused", "raises", "waits"} : Reply(p, how)
    \/ \E p \in Procs, how \in {"sent", "refused", "raises"} : GenericReply(p, how)

SpecHandlers == InitHandlers /\ [][NextHandlers]_vars

\* either deployment: the calendar-bot text handler or the bot of src/main.py
\* the OAuth callback and the webhook of src/app/main.py over one token file,
\* served by several workers
InitTokenStore ==
    /\ entry = "oauth"
    /\ InitStore
    /\ window_seconds = MESSAGE_DEDUP_WINDOW
    /\ cleanup_interval_seconds = MESSAGE_DEDUP_WINDOW
    /\ InitBot
    /\ others = 0
    /\ InitObs
    /\ InitApp
    /\ InitSvc
    /\ InitOAuth

NextTokenStore ==
    \/ OaTick
    \/ \E p \in Procs, u \in Users, e \in UserExpiresIn,
          a \in {"missing_params", "exchange_raises", "no_access_token", "token"} :
             oauth_callback(p, u, a, e)
    \/ \E p \in Procs : SetRead(p)
    \/ \E p \in Procs : SetWrite(p)
    \/ \E u \in Users, t \in PayloadTokens,
          k \in {"url_verification", "no_sender", "file", "image", "text"} :
             OaReceive(MainThread, u, t, k)
    \/ \E p \in Procs, o \in {"http_error", "ocr_error", "text"} : OaDownload(p, o)
    \/ \E p \in Procs, found \in BOOLEAN : OaExtract(p, found)
    \/ \E p \in Procs, ok \in BOOLEAN : OaPrimary(p, ok)
    \/ \E p \in Procs, ok \in BOOLEAN : OaCreate(p, ok)

SpecTokenStore == InitTokenStore /\ [][NextTokenStore]_vars

InitPipelines == InitService \/ InitHandlers

NextPipelines == NextService \/ NextHandlers

SpecPipelines == InitPipelines /\ [][NextPipelines]_vars


\* ------------------------------------------------------------------ claims

\* retention window of the deployed admission store
Window == IF entry = "db" THEN window_seconds ELSE MESSAGE_DEDUP_WINDOW

\* C1: two admission calls for the same message_id within the retention
\* window never both answer "first admission": the admissions of one id are
\* more than a window apart, and an id is passed on to a handler exactly once
\* per admission.
C1_AdmitOncePerWindow ==
    \A m \in MsgIds :
        /\ \A i, j \in DOMAIN admits[m] :
              i < j => admits[m][j] - admits[m][i] > Window
        /\ routed[m] <= Len(admits[m])
        /\ (\A p \in Procs : pc[p] = "idle") => routed[m] = Len(admits[m])

\* C1 witness: an id was admitted, other ids were admitted and a sweep ran,
\* and a call for the id at the very end of its window was rejected.
C1_Witness ==
    \E m \in MsgIds :
        /\ Len(admits[m]) = 1
        /\ routed[m] = 1
        /\ \E t \in rejects[m] : t - admits[m][1] = Window
        /\ \E o \in MsgIds \ {m} : Len(admits[o]) > 0
        /\ entry = "db" => last_cleanup > admits[m][1]

\* C2: whatever the interleaving of the workers' membership checks and
\* insertions, one message_id is admitted at most once per retention window
\* (of two racing deliveries one wins), and no admitted id loses its record
\* while its window lasts.
C2_OneWinnerPerId ==
    \A m \in MsgIds :
        /\ \A i, j \in DOMAIN admits[m] :
              i < j => admits[m][j] - admits[m][i] > MESSAGE_DEDUP_WINDOW
        /\ \A i \in DOMAIN admits[m] :
              clock - admits[m][i] <= MESSAGE_DEDUP_WINDOW
                  => DictHas(processed_messages, m)

\* C4: a message_id admitted before a restart is not admitted again within
\* the retention window after it.
C4_DedupSurvivesRestart ==
    restarts > 0 =>
        \A m \in MsgIds : \A i, j \in DOMAIN admits[m] :
            i < j => admits[m][j] - admits[m][i] > Window

Idle == \A p \in Procs : pc[p] = "idle"

\* positions inside get_app_access_token / get_tenant_access_token
TokenPcs == {"ten_check", "app_check", "app_post", "app_store", "ten_read"}

\* C3: a message_id delivered again after it was handled causes no second
\* calendar create call and no second reply to the user.
C3_RedeliveryIsSilent ==
    \A m \in MsgIds :
        /\ create_calls[m] <= 1
        /\ replies[m] <= 1

\* C8: a get_*_access_token call made before the cached expire_at returns
\* the cached token and sends nothing to the credential endpoint; a call made
\* at or after expire_at (or with no cache) sends exactly one request, and
\* once it has returned the cache holds the token it returned, which is the
\* newest credential issued.
C8_TokenCache ==
    tret.kind # "none" =>
        /\ tret.fresh =>
              /\ tret.posts = 0
              /\ tret.result = "ok"
              /\ tret.token = tret.expect
        /\ ~tret.fresh => tret.posts = 1
        /\ (Idle /\ tret.result = "ok") =>
              /\ token_cache # {}
              /\ tret.token = TokenOf(token_cache, tret.kind)
              /\ tret.posts = 1 => tret.token.k = Len(deadline)

\* C8 witness: the third call in a row is made at the very second the cached
\* credential expires, refreshes once, and the cache holds the second
\* credential.
C8_Witness ==
    /\ Idle
    /\ nops = 3
    /\ tret.result = "ok"
    /\ ~tret.fresh
    /\ tret.posts = 1
    /\ tret.at_expiry
    /\ tret.token.k = 2
    /\ tret.token = TokenOf(token_cache, tret.kind)

\* C9: at the moment a get_*_access_token call returns a token, the clock is
\* not past the issuer's expiry of that credential minus the 60-second margin.
C9_NeverPastMargin ==
    [][\A p \in Procs :
          (pc[p] \in TokenPcs /\ pc'[p] \notin TokenPcs /\ tret'.result = "ok")
              => clock <= deadline[tret'.token.k] - ExpiryMargin]_vars

\* C10: a step in which the credential request fails makes the call raise,
\* leaves the cached credential as it was, ends the request that made the
\* call with no calendar call and no reply, and touches no other worker.
C10_AuthFailureAbortsOneEvent ==
    [][\A p \in Procs :
          (pc[p] = "app_post" /\ pc'[p] \notin {"app_post", "app_store"})
              => /\ tret'.result = "raise"
                 /\ token_cache' = token_cache
                 /\ pc'[p] = "idle"
                 /\ create_calls' = create_calls
                 /\ replies' = replies
                 /\ \A q \in Procs \ {p} : pc'[q] = pc[q] /\ frame'[q] = frame[q]]_vars

\* C10 witness: a credential call failed while a credential was cached, the
\* cache kept it, and a later request was answered to the user.
C10_Witness ==
    /\ after_fail = "served"
    /\ token_cache # {}
    /\ \E m \in MsgIds : replies[m] > 0

\* C6: the calendar never holds two events with the same title and start
\* created by runs of the pipeline, and of the runs that end, at most one per
\* (calendar, title, start) ends in Created.
C6_NoTwinEvents ==
    \A k \in EventKeys : events[k] <= 1

\* C7: a create request is never sent for a draft whose title and start match
\* an event already on the target calendar; such a run ends in Duplicate.
C7_DuplicateCheckedFirst ==
    \A m \in MsgIds :
        runs[m].existed =>
            /\ ~runs[m].create_issued
            /\ runs[m].outcome \in {"none", "Duplicate"}

\* the tokens an issuer response carries
RespTokens(resp) ==
    {[k |-> resp.k, t |-> "app"]}
    \cup (IF resp.has_tenant THEN {[k |-> resp.k, t |-> "tenant"]} ELSE {})

\* the tokens of the cached record
CacheTokens(cache) ==
    {c.app_access_token : c \in cache} \cup {c.tenant_access_token : c \in cache}

\* the cache is empty or holds one record whose two tokens come from one
\* issuer response
CacheComplete(cache) ==
    \A c \in cache :
        /\ cache = {c}
        /\ c.app_access_token.t = "app"
        /\ c.tenant_access_token.k = c.app_access_token.k
        /\ c.tenant_access_token.t \in {"app", "tenant"}

\* C11: under any interleaving of concurrent get_app_access_token and
\* get_tenant_access_token calls the cache is empty or holds one complete
\* credential; the cache changes only when a caller stores, and then holds
\* the app token, tenant token and expire_at of that caller's issuer
\* response (last writer wins); a caller that returns hands back a token of
\* the cached credential or of its own issuer response.
C11_CacheNeverTorn ==
    [][/\ CacheComplete(token_cache')
       /\ token_cache' # token_cache =>
              \E p \in Procs :
                 /\ pc[p] = "app_store"
                 /\ pc'[p] # "app_store"
                 /\ \A c \in token_cache' :
                       /\ CacheTokens(token_cache') \subseteq RespTokens(frame[p].resp)
                       /\ frame[p].resp.has_tenant =>
                              c.tenant_access_token.t = "tenant"
                       /\ c.expire_at = clock + frame[p].resp.expire - ExpiryMargin
       /\ \A p \in Procs :
             (pc[p] \in TokenPcs /\ pc'[p] \notin TokenPcs /\ tret'.result = "ok")
                => tret'.token \in CacheTokens(token_cache)
                                   \cup RespTokens(frame[p].resp)]_vars

\* C11 witness: two callers refreshed at the same time, the caller holding
\* the credential issued first stored last, so the cache holds the first
\* credential and the second one is gone.
C11_Witness ==
    /\ Idle
    /\ Len(deadline) = 2
    /\ deadline[2] = 0
    /\ token_cache # {}
    /\ Cached(token_cache).app_access_token.k = 1
    /\ tret.result = "ok"

\* C12: callers that find the cache expired at the same time do not each
\* send their own request to the credential endpoint: at most one caller at
\* a time holds an issuer response it has yet to store.
C12_NoRefreshStorm ==
    Cardinality({p \in Procs : pc[p] = "app_store"}) <= 1

\* C13: whenever the calendar create call fails, by an error response or by
\* a raised exception, the run ends in the fallback card with the manual
\* deep link, not in the generic error text and not in the success card.
C13_FailedCreateGetsFallback ==
    [][\A p \in Procs :
          (pc[p] = "svc_reply" /\ pc'[p] = "idle" /\ ~svc[p].result.success)
              => runs'[msg[p]].outcome = "Fallback"]_vars

\* the calls and replies made for a message
CallsOf(m) == {handled[m].calls[i] : i \in DOMAIN handled[m].calls}

CalendarCalls == {"calendar_list", "create", "attendee"}

\* C15: when the extractor answers has_schedule = false, the next thing the
\* handler does is send the extractor's reason to the user, and the handling
\* ends without any calendar list, create or attendee call.
C15_NoScheduleNoCalendar ==
    \A m \in MsgIds :
        ("extract" \in CallsOf(m) /\ ~handled[m].schedule.has_schedule) =>
            /\ CallsOf(m) \cap CalendarCalls = {}
            /\ handled[m].event = NoEvent
            /\ handled[m].reply = "reason" \/ "reason" \in CallsOf(m)
            /\ Len(handled[m].calls) >= 2 => handled[m].calls[2] = "reason"
            /\ \A p \in Procs :
                  msg[p] = m => pc[p] \in {"b_reply", "b_generic", "b_stalled"}

\* C15 witness: a text in which the extractor found no schedule was answered
\* with the reason and nothing else was called.
C15_Witness ==
    \E m \in MsgIds :
        /\ handled[m].done
        /\ handled[m].type = "text"
        /\ ~handled[m].schedule.has_schedule
        /\ handled[m].calls = <<"extract", "reason">>
        /\ handled[m].told = "reason"

\* C16: a failure of a collaborator does not end a request without a word:
\* a request that ends at the download or at the calendar call, where only
\* a failure ends it, leaves a failure message to the user.
C16_FailureBecomesNotice ==
    [][\A p \in Procs :
          (pc[p] \in {"download", "calendar"} /\ pc'[p] = "idle")
              => replies'[msg[p]] = replies[msg[p]] + 1]_vars

\* C17: an event whose message type is none of the supported ones is
\* answered before its handling ends: a request that is over in the step it
\* arrived in has sent a reply.
C17_UnsupportedTypeAnswered ==
    [][(nops' # nops /\ pc' = pc) => replies' # replies]_vars

\* the texts and cards a handler sends back
ReplyKinds == {"reason", "unsupported", "download_failed", "asr_unavailable",
               "generic"}

\* C18: the handling of an admitted image message downloads the image,
\* calls the vision/OCR collaborator and ends with a reply: no image message
\* is over without a download and a reply.
C18_ImageAnswered ==
    \A m \in MsgIds :
        (handled[m].type = "image" /\ handled[m].done) =>
            /\ "download" \in CallsOf(m)
            /\ CallsOf(m) \cap ReplyKinds # {}

\* C19: when speech-to-text is not configured or gives no text, the next
\* thing the voice handler does is send the 'feature unavailable' reply; it
\* calls neither the extractor nor the calendar, and it never ends without
\* that reply.
C19_AsrUnavailableAnswered ==
    \A m \in MsgIds :
        "asr" \in CallsOf(m) =>
            /\ "extract" \notin CallsOf(m)
            /\ CallsOf(m) \cap CalendarCalls = {}
            /\ handled[m].reply = "asr_unavailable"
                  \/ "asr_unavailable" \in CallsOf(m)
            /\ Len(handled[m].calls) >= 3 => handled[m].calls[3] = "asr_unavailable"
            /\ \A p \in Procs :
                  msg[p] = m => pc[p] \in {"b_reply", "b_generic", "b_stalled"}

\* C19 witness: a voice message was downloaded, recognition gave nothing,
\* and the user was told the feature is unavailable.
C19_Witness ==
    \E m \in MsgIds :
        /\ handled[m].done
        /\ handled[m].type = "audio"
        /\ handled[m].calls = <<"download", "asr", "asr_unavailable">>
        /\ handled[m].told = "asr_unavailable"

\* C20: the handling of an admitted text message whose draft has
\* has_schedule = true and no end_time reaches the calendar create call with
\* an event that starts at the draft's date and start_time and ends one hour
\* later.
C20_DefaultEndReachesCreate ==
    \A m \in MsgIds :
        LET d == handled[m].schedule IN
        (handled[m].type = "text" /\ handled[m].done
            /\ d.has_schedule /\ d.end_time = NoTime) =>
            /\ "create" \in CallsOf(m)
            /\ handled[m].event.start = d.date * MinutesPerDay + d.start_time
            /\ handled[m].event.end = handled[m].event.start + DefaultDuration

\* C21: every event handed to the calendar create call ends after it
\* starts, whatever draft the extractor returned.
C21_EndAfterStart ==
    \A m \in MsgIds :
        handled[m].event # NoEvent => handled[m].event.end > handled[m].event.start

\* C22: a draft with no end_time resolves to an end one hour after the
\* start; a draft with an end_time resolves to that time on the draft's
\* date; the start is the draft's date and start_time; the event handed to
\* the create call is the resolved one.
C22_DraftResolution ==
    \A m \in MsgIds :
        LET d == handled[m].schedule
            r == handled[m].resolved
        IN  /\ d.has_schedule =>
                  /\ r.start = d.date * MinutesPerDay + d.start_time
                  /\ d.end_time = NoTime =>
                        r.end = r.start + 60 /\ r.end - r.start >= 60
                  /\ d.end_time # NoTime =>
                        r.end = d.date * MinutesPerDay + d.end_time
            /\ handled[m].event \in {NoEvent, r}
            /\ "create" \in CallsOf(m) => handled[m].event = r

\* C22 witness: a draft without end_time was resolved and handed to the
\* create call with an end one hour after its start.
C22_Witness ==
    \E m \in MsgIds :
        /\ handled[m].schedule.has_schedule
        /\ handled[m].schedule.end_time = NoTime
        /\ "create" \in CallsOf(m)
        /\ handled[m].event.end = handled[m].event.start + 60


\* C23: a failure of the attendee enrollment (an error response or an
\* exception) after a successful create does not change the outcome: the run
\* still reports Created, with the calendar and the event id of the created
\* event.
C23_AttendeeFailureKeepsCreated ==
    /\ \A p \in Procs :
           (pc[p] = "svc_reply" /\ runs[msg[p]].attendee \in {"error", "raises"}) =>
               /\ svc[p].result.success
               /\ svc[p].result.arity = 3
               /\ svc[p].result.calendar_id = runs[msg[p]].create_on
               /\ svc[p].result.event_id = runs[msg[p]].created_id
    /\ \A m \in MsgIds :
           (runs[m].attendee \in {"error", "raises"} /\ runs[m].outcome # "none") =>
               runs[m].outcome = "Created"

C23_Witness ==
    \E m \in MsgIds :
        /\ runs[m].created
        /\ runs[m].attendee = "raises"
        /\ runs[m].outcome = "Created"


\* the number of times the call x was made for a message
Occurrences(calls, x) == Cardinality({i \in DOMAIN calls : calls[i] = x})
FirstIndex(calls, x) == CHOOSE i \in DOMAIN calls : calls[i] = x

\* C24: in one run there is at most one create call and at most one
\* attendee-add call; the attendee-add call is made only after the create
\* call succeeded, and names the calendar and the event the create returned.
C24_OneCreateOneEnrollment ==
    \A m \in MsgIds :
        /\ Occurrences(handled[m].calls, "create") <= 1
        /\ Occurrences(handled[m].calls, "attendee") <= 1
        /\ (runs[m].attendee # "none") = ("attendee" \in CallsOf(m))
        /\ runs[m].attendee # "none" =>
               /\ runs[m].created
               /\ runs[m].created_id # "none"
               /\ runs[m].attendee_for = runs[m].created_id
               /\ runs[m].attendee_on = runs[m].create_on
               /\ FirstIndex(handled[m].calls, "create") < FirstIndex(handled[m].calls, "attendee")

C24_Witness ==
    \E m \in MsgIds :
        /\ runs[m].attendee = "added"
        /\ runs[m].attendee_for = "evt"
        /\ runs[m].outcome = "Created"

\* C25: when the lookup of the user's calendar fails, the create request is
\* still sent, to the calendar 'primary'; when it succeeds, the calendar it
\* found is the one named by the create request and by the attendee-add call.
C25_CalendarFallback ==
    \A m \in MsgIds :
        /\ (runs[m].lookup # "none" /\ runs[m].outcome # "none") => runs[m].create_issued
        /\ runs[m].create_issued =>
               /\ runs[m].lookup = "failed" => runs[m].create_on = "primary"
               /\ runs[m].lookup = "found" => runs[m].create_on = "cal_user"
        /\ runs[m].attendee # "none" =>
               /\ runs[m].lookup = "failed" => runs[m].attendee_on = "primary"
               /\ runs[m].lookup = "found" => runs[m].attendee_on = "cal_user"

C25_Witness ==
    /\ \E m \in MsgIds :
           runs[m].lookup = "failed" /\ runs[m].created /\ runs[m].create_on = "primary"
    /\ \E m \in MsgIds :
           runs[m].lookup = "found" /\ runs[m].attendee # "none"
                                   /\ runs[m].attendee_on = "cal_user"

\* C26: nothing is retried: for one inbound message each of the download,
\* the extraction, the create call and the attendee-add call is made at most
\* once.
C26_NoInternalRetry ==
    \A m \in MsgIds :
        \A x \in {"download", "extract", "create", "attendee"} :
            Occurrences(handled[m].calls, x) <= 1

C26_Witness ==
    \E m \in MsgIds :
        /\ runs[m].outcome = "Error"
        /\ runs[m].create_issued
        /\ ~runs[m].created
        /\ Occurrences(handled[m].calls, "create") = 1


\* C27: the handling of every inbound message reaches a terminal state even
\* when a collaborator stalls: every network call has a time limit, so no
\* handler is left waiting for an answer that never comes.
C27_StalledCallTimesOut ==
    \A p \in Procs : pc[p] # "b_stalled"


\* a sweep ran in this step: DedupStore.cleanup, or cleanup_old_messages
SweptDb == entry = "db" /\ last_cleanup' # last_cleanup
SweptDict ==
    /\ entry = "mem"
    /\ DictLen > MAX_PROCESSED_MESSAGES
    /\ \E p \in Procs : pc[p] = "purge" /\ pc'[p] = "route"

\* C28: a dedup record is removed only by the retention sweep; a sweep at
\* time t removes exactly the records with created_at < t - window and keeps
\* every younger one; no other step deletes a record or changes its time.
C28_OnlySweepRemoves ==
    [][ /\ \A r \in rows :
             /\ r \notin rows' => SweptDb /\ r.created_at < clock - window_seconds
             /\ (SweptDb /\ r.created_at < clock - window_seconds) => r \notin rows'
        /\ \A e \in processed_messages :
             /\ e \notin processed_messages' =>
                    SweptDict /\ e.timestamp < clock - MESSAGE_DEDUP_WINDOW
             /\ (SweptDict /\ e.timestamp < clock - MESSAGE_DEDUP_WINDOW) =>
                    e \notin processed_messages'
        /\ \A r1, r2 \in rows' : r1.message_id = r2.message_id => r1 = r2
        /\ \A e1, e2 \in processed_messages' :
             e1.message_id = e2.message_id => e1 = e2
      ]_vars

\* C28 witness: a sweep has removed the record of an admitted id and kept a
\* record that was written before it ran and lies on the edge of the window.
C28_Witness ==
    \/ /\ entry = "db"
       /\ \E m \in MsgIds : Len(admits[m]) > 0 /\ ~HasRow(rows, m)
       /\ \E r \in rows : /\ r.created_at < last_cleanup
                          /\ r.created_at = last_cleanup - window_seconds
    \/ /\ entry = "mem"
       /\ \E m \in MsgIds : Len(admits[m]) > 0 /\ ~DictHas(processed_messages, m)


DownloadFailure(m) ==
    /\ handled[m].done
    /\ "download" \in CallsOf(m)
    /\ "asr" \notin CallsOf(m)
    /\ handled[m].event = NoEvent

\* C30: redelivery is the retry: when the handling of an admitted message
\* failed on a transient collaborator failure before any event was created,
\* a later delivery of the same message_id is handled again, not dropped.
C30_RedeliveryRetries ==
    \A m \in MsgIds :
        DownloadFailure(m) => handled[m].again # "dropped_after"


\* C31: the success card carries the 'view details' link exactly when the
\* calendar id and the event id of the created event are both known, and the
\* handler that reports Created hands the card the identifiers the create
\* call returned.
C31_SuccessCardLink ==
    \A m \in MsgIds :
        /\ runs[m].outcome = "Created" =>
               /\ runs[m].card.calendar_id = runs[m].create_on
               /\ runs[m].card.event_id = runs[m].created_id
               /\ runs[m].link =
                      (runs[m].create_on # "none" /\ runs[m].created_id # "none")
        /\ runs[m].outcome # "Created" => ~runs[m].link

C31_Witness ==
    /\ \E m \in MsgIds :
           runs[m].outcome = "Created" /\ runs[m].link /\ runs[m].card.event_id = "evt"
    /\ \E m \in MsgIds :
           runs[m].outcome = "Created" /\ ~runs[m].link /\ runs[m].created_id = "none"


\* the time of the latest admission of m
LastAdmit(a) == a[Len(a)]

\* C32: a rejected redelivery leaves the stored record as it was: the
\* created_at of a message_id is the time of the admission that wrote it, so
\* its retention window is counted from that admission and later duplicate
\* deliveries do not extend it.
C32_RejectionKeepsRecord ==
    \A m \in MsgIds :
        /\ \A r \in rows :
              r.message_id = m =>
                  Len(admits[m]) > 0 /\ r.created_at = LastAdmit(admits[m])
        /\ \A e \in processed_messages :
              e.message_id = m =>
                  Len(admits[m]) > 0 /\ e.timestamp = LastAdmit(admits[m])
        /\ \A t \in rejects[m] :
              Len(admits[m]) > 0 /\ \E i \in DOMAIN admits[m] : admits[m][i] <= t

\* C32 witness: a delivery of m was rejected later than m was admitted, and
\* the record of m still carries the time of the admission.
C32_Witness ==
    \E m \in MsgIds :
        /\ Len(admits[m]) = 1
        /\ \E t \in rejects[m] : t > admits[m][1]
        /\ \/ entry = "db" /\ [message_id |-> m, created_at |-> admits[m][1]] \in rows
           \/ entry = "mem" /\ [message_id |-> m, timestamp |-> admits[m][1]]
                                   \in processed_messages


SweepDue == clock - last_cleanup >= cleanup_interval_seconds
\* the row of m is older than the window
RowExpired(m) ==
    \E r \in rows : r.message_id = m /\ r.created_at < clock - window_seconds

\* C34: in DedupStore.is_duplicate the sweep runs only when at least
\* cleanup_interval_seconds have passed since the last one, and before the
\* insert of the same call: an id whose row is older than the window is
\* answered new exactly when a sweep is due in the call and duplicate when
\* none is due; after the call the id has a row.
C34_SweepBeforeInsert ==
    [][ /\ last_cleanup' # last_cleanup => SweepDue /\ last_cleanup' = clock
        /\ \A m \in MsgIds :
             /\ admits'[m] # admits[m] =>
                   /\ HasRow(rows, m) => RowExpired(m) /\ SweepDue
                   /\ SweepDue => last_cleanup' = clock
                   /\ [message_id |-> m, created_at |-> clock] \in rows'
             /\ rejects'[m] # rejects[m] =>
                   /\ HasRow(rows, m)
                   /\ ~(RowExpired(m) /\ SweepDue)
                   /\ SweepDue => last_cleanup' = clock
                   /\ \A r \in rows : r.message_id = m => r \in rows'
      ]_vars

\* C34 witness: an id whose row was older than the window was answered
\* duplicate (no sweep was due), or was answered new by a call that swept.
C34_Witness ==
    \E m \in MsgIds :
        /\ Len(admits[m]) > 0
        /\ \/ \E t \in rejects[m] :
                 /\ t - admits[m][1] > window_seconds
                 /\ Len(admits[m]) = 1
                 /\ HasRow(rows, m)
           \/ /\ Len(admits[m]) = 2
              /\ last_cleanup = admits[m][2]
              /\ [message_id |-> m, created_at |-> admits[m][2]] \in rows


\* C35: set_user_token(u, t) changes only the entry of u: once the calls
\* have returned, whatever their interleaving, every user's stored token is
\* the last one written for that user.
C35_NoLostUserToken ==
    (\A p \in Procs : pc[p] = "idle") =>
        \A u \in Users : token_file[u] = oauth_log.last_set[u]

C37_OnlyVerifiedPayloads ==
    \A e \in oauth_log.effects : e.payload_token = "good"

====
